---- MODULE Spec2Model ----
(***************************************************************************)
(* Order fulfillment pipeline of the FiveM store backend: transactions,    *)
(* grants, user balances, the payment webhooks and the delivery calls to   *)
(* the game server.                                                        *)
(*                                                                         *)
(* Every HTTP request is a process (a slot of req).  A handler is an async *)
(* function: it runs without interruption from one `await` to the next,    *)
(* and the call it awaits (a storage method, an HTTP call) is evaluated at *)
(* the end of the segment that precedes the await.  One action of the      *)
(* model is one such segment; the segments of different requests           *)
(* interleave freely.  Segments that touch only request-local values,      *)
(* immutable columns or the append-only activity log are merged into the   *)
(* segment before them.                                                    *)
(***************************************************************************)
EXTENDS Integers, Sequences, FiniteSets, TLC

\* ------------------------------------------------------------------ bounds
MaxReq == 3      \* HTTP requests served after the checkout in one behaviour
MaxInFlight == 2 \* requests in progress at the same time
MaxRace == 2     \* requests served in a behaviour with concurrent requests
MaxAuth == 2     \* requests served in a behaviour with arbitrary senders
MaxItems == 2    \* line items of one checkout
MaxClock == 1    \* days that pass in one behaviour
MaxGrantOps == 3 \* requests served in a behaviour about grant statuses
MaxDeliveryOps == 4 \* requests served in a behaviour about deliveries
MaxLiveOps == 2    \* requests served while the game server still refuses
MaxRetryOps == 3 \* manual deliveries in the retry specification
MaxIdentityOps == 3 \* profile updates and requests of a behaviour
MaxStockRuns == 3  \* events of a behaviour that fulfills repeatedly
MoreStock == 3     \* a stock that two purchases of two units exhaust
MaxCancelOps == 2  \* cancel requests, polls and events of a behaviour
MaxPricingOps == 2 \* price updates and approved events of a behaviour
PriceStep == 250   \* the raise an administrator gives a price
MaxFaultRuns == 1 \* approved events delivered in a behaviour with faults
MaxDeliveries == 1 \* approved events delivered in the purchase scenario
FarExpiry == 45  \* a VIP expiry day later than any fulfillment plus 30 days
SomeCoins == 50  \* a coin balance held before the purchase
GrantAmount == 25 \* the coins of an admin grant
CoinStep == 75   \* the amount of a /users/coins update

\* ------------------------------------------------------------- vocabulary
retryAttempts == 3                \* FivemService.retryAttempts
NoVal == "none"                 \* undefined / null / absent field
DigestLen == 64                 \* hex digits of an HMAC-SHA256 digest
Reqs == 1..MaxInFlight          \* request slots; slot 0 is the checkout
Slots == 0..MaxInFlight
TxIds == {"t1"}
UserIds == {1, 2}
ProductIds == {1, 2, 3}
Keys == {"k1", "kx"}            \* k1: the secret shared with the provider
TxStatus == {"pending", "approved", "cancelled", "failed"}
Terminal == {"approved", "cancelled", "failed"}
GrantStatus == {"pending", "delivered", "failed"}

Max(a, b) == IF a >= b THEN a ELSE b

\* The seeded catalog: 100 Coins, VIP Bronze (30 days), a vehicle.
Catalog ==
  [p \in ProductIds |->
     CASE p = 1 -> [type |-> "coins", price |-> 500,
                    data |-> [amount |-> 100, level |-> NoVal, duration |-> 0]]
       [] p = 2 -> [type |-> "vip", price |-> 1500,
                    data |-> [amount |-> 0, level |-> "bronze", duration |-> 30]]
       [] p = 3 -> [type |-> "vehicle", price |-> 7500,
                    data |-> [amount |-> 0, level |-> NoVal, duration |-> 0]]]

\* The entry createPayment pushes on cartProducts for one requested item.
\* It copies no stock column: product.stock of a line item is undefined.
LineItem(product, quantity) ==
  [productId |-> product.id, price |-> product.price, quantity |-> quantity,
   subtotal |-> product.price * quantity, type |-> product.type,
   data |-> product.data]

\* Mutant: the unit prices are added up, whatever the quantities.
RECURSIVE SumSubtotals_Units(_)
SumSubtotals_Units(items) ==
  IF items = <<>> THEN 0
  ELSE Head(items).price + SumSubtotals_Units(Tail(items))

RECURSIVE SumSubtotals(_)
SumSubtotals(items) ==
  IF items = <<>> THEN 0
  ELSE Head(items).subtotal + SumSubtotals(Tail(items))

\* The item lists a checkout request may carry, with quantities from Q.
CartsOf(Q) ==
  UNION {[1..n -> [productId : ProductIds, quantity : Q]] : n \in 1..MaxItems}

\* The item lists with quantity 1 each.
Carts == CartsOf({1})

VARIABLES
  txs,          \* transactions table: id -> row
  grants,       \* grants table, in insertion order; the index is the grant id
  users,        \* users table: id -> [coins, vipLevel, vipExpires, fivemIdentifier]
  stock,        \* products.stock: product id -> stock (-1 = unlimited)
  prices,       \* products.price: product id -> unit price
  logs,         \* activity_logs: action tag -> number of rows
  req,          \* the requests in progress: slot -> kind, position, locals
  served,       \* number of requests accepted by the server so far
  last,         \* history: the request that was answered last
  efiSecret,    \* process.env.EFI_WEBHOOK_SECRET || ""   (NoVal: empty)
  webhookSecret,\* process.env.WEBHOOK_SECRET             (NoVal: unset)
  fivemSecret,  \* process.env.FIVEM_WEBHOOK_SECRET       (NoVal: unset)
  clock,        \* Date.now(), in days
  fulfillCalls, \* history: tx id -> calls of processApprovedPayment
  events,       \* history: tx id -> webhook events the handlers accepted
  effects,      \* history: tx id -> account effects fulfillment has applied
  expected,     \* history: user id -> balance if every mutation were atomic
  attempts      \* history: grant id -> [calls, ok] of fivemService.deliverItems

vars == <<txs, grants, users, stock, prices, logs, req, served, last, efiSecret,
          webhookSecret, fivemSecret, clock, fulfillCalls, events, effects, expected,
          attempts>>

db == <<txs, grants, users, stock, prices, logs>>
env == <<efiSecret, webhookSecret, fivemSecret, clock>>
hist == <<fulfillCalls, events, effects, expected, attempts>>

LogTags == {"webhook_received", "payment_processed", "payment_failed",
            "payment_created", "payment_cancelled", "coins_updated",
            "admin_grant_created", "manual_grant_created", "manual_delivery",
            "bulk_delivery_processed", "item_delivered", "product_updated",
            "profile_updated"}

\* ---------------------------------------------------------------- storage
NoTx == [exists |-> FALSE, status |-> NoVal, paymentId |-> NoVal,
         userId |-> 0, amount |-> 0, products |-> <<>>]

\* SqliteStorage.updateTransaction with a status in the updates: an
\* unconditional UPDATE ... WHERE id = ?
updateTransaction(T, id, st) == [T EXCEPT ![id].status = st]

\* SqliteStorage.updateTransaction with a paymentId in the updates.
updateTransactionPaymentId(T, id, pid) == [T EXCEPT ![id].paymentId = pid]

\* SqliteStorage.createGrant: INSERT; the new row is the last one.
createGrant(G, g) == Append(G, g)

\* Mutant: an update that writes nothing.
updateGrant_Lost(G, id, st) == G

\* SqliteStorage.updateGrant: an unconditional UPDATE ... WHERE id = ?
updateGrant(G, id, st) == [G EXCEPT ![id].status = st]

\* SqliteStorage.getPendingGrants
getPendingGrants(G) == {g \in DOMAIN G : G[g].status = "pending"}

\* SqliteStorage.logActivity
logActivity(L, tag) == [L EXCEPT ![tag] = @ + 1]

\* storage.getProduct: the row of a product, with its current price.
getProduct(p) ==
  [id |-> p, price |-> prices[p], type |-> Catalog[p].type,
   data |-> Catalog[p].data]

\* Grant rows that reference a transaction.
GrantsOf(t) == {g \in DOMAIN grants : grants[g].transactionId = t}

\* ---------------------------------------------------------------- requests
\* const results = { processed: 0, delivered: 0, failed: 0, skipped: 0 }
NoResults == [processed |-> 0, delivered |-> 0, failed |-> 0, skipped |-> 0]

\* The locals of a handler.  results is the counter object of the bulk
\* handler; pending0 (the grants it read as pending) and tried (the grants
\* it attempted, in order) are history.
IdleReq ==
  [kind |-> "idle", pc |-> "idle",
   tx |-> NoVal, old |-> NoVal, ev |-> NoVal, raw |-> NoVal, pid |-> NoVal,
   uid |-> 0, ucoins |-> 0, ulinked |-> NoVal,
   i |-> 0, g |-> 0, snap |-> 0, queue |-> {},
   results |-> NoResults, pending0 |-> {}, tried |-> <<>>,
   delivery |-> [threw |-> FALSE, delivered |-> FALSE, retryAfter |-> 0],
   sigGiven |-> FALSE, verified |-> FALSE, wrote |-> FALSE]

InFlight == {q \in Reqs : req[q].kind # "idle"}

\* The server takes a new request in the lowest free slot.
CanStart(r) ==
  /\ r \in Reqs
  /\ req[r].kind = "idle"
  /\ \A q \in Reqs : q < r => req[q].kind # "idle"

\* The record kept of an answered request.
Answer(rq, code) ==
  [kind |-> rq.kind, resp |-> code, sigGiven |-> rq.sigGiven,
   verified |-> rq.verified, wrote |-> rq.wrote,
   results |-> rq.results, pending0 |-> rq.pending0, tried |-> rq.tried,
   delivery |-> rq.delivery]

NoAnswer == Answer(IdleReq, 0)

\* ------------------------------------------------------------- signatures
NoSig == [len |-> 0, body |-> <<>>, key |-> NoVal]     \* header absent
ShortSig == [len |-> 2, body |-> <<>>, key |-> NoVal]  \* a two-digit string
OtherBody == <<"other">>                               \* some other raw body

\* CryptoUtils.hashWebhookPayload: the hex HMAC-SHA256 of the payload.
hashWebhookPayload(payload, secret) ==
  [len |-> DigestLen, body |-> payload, key |-> secret]

\* crypto.timingSafeEqual: throws on buffers of different length.
timingSafeEqual(a, b) ==
  IF a.len # b.len THEN "throw" ELSE IF a = b THEN "true" ELSE "false"

\* CryptoUtils.verifyWebhookSignature
verifyWebhookSignature(payload, signature, secret) ==
  timingSafeEqual(signature, hashWebhookPayload(payload, secret))

\* EfiService.validateWebhookSignature: no secret configured, no check;
\* Buffer.from(undefined, "hex") throws.
validateWebhookSignature(payload, signature) ==
  IF efiSecret = NoVal THEN "true"
  ELSE IF signature.len = 0 THEN "throw"
  ELSE timingSafeEqual(signature, hashWebhookPayload(payload, efiSecret))

\* The signatures a sender may attach to a payload.
Sigs(payload) ==
  {NoSig, ShortSig}
    \cup {hashWebhookPayload(payload, k) : k \in Keys}
    \cup {hashWebhookPayload(OtherBody, k) : k \in Keys}

\* History: the signature is the HMAC of this payload under the configured
\* secret.
Authentic(payload, signature, secret) ==
  /\ secret # NoVal
  /\ signature.len = DigestLen
  /\ signature = hashWebhookPayload(payload, secret)

\* EfiService.parseWebhookData: the status of the normalized event.
parseWebhookData(pix) ==
  IF pix = "CONCLUIDA" THEN "approved"
  ELSE IF pix = "REMOVIDA_PELO_USUARIO_RECEBEDOR" THEN "cancelled"
  ELSE "pending"

PixStatus == {"CONCLUIDA", "REMOVIDA_PELO_USUARIO_RECEBEDOR", "ATIVA", NoVal}

\* transactions.find(t => t.paymentId === webhookData.paymentId)
FindByPaymentId(pid) ==
  {t \in TxIds : txs[t].exists /\ pid # NoVal /\ txs[t].paymentId = pid}

\* ------------------------------------------------------------ game server
\* History of a grant that deliverItemsWithRetry has not been called for.
NoRetry == [calls |-> 0, fails |-> 0, delays |-> 0, result |-> NoVal]

\* What the game-server boundary does with one POST /store/deliver.
BoundaryOutcomes ==
  {"success", "offline", "rejected", "empty", "refused", "timeout"}

\* FivemService.makeRequest: the body of the response, or an Error thrown
\* for every failure of the transport.  success and playerOnline are the
\* fields of the body ("none": the field is absent).
makeRequest(outcome) ==
  CASE outcome = "success" ->
         [threw |-> FALSE, body |-> TRUE, success |-> "true",
          playerOnline |-> "true"]
    [] outcome = "offline" ->
         [threw |-> FALSE, body |-> TRUE, success |-> "false",
          playerOnline |-> "false"]
    [] outcome = "rejected" ->
         [threw |-> FALSE, body |-> TRUE, success |-> "false",
          playerOnline |-> NoVal]
    [] outcome = "empty" ->
         [threw |-> FALSE, body |-> FALSE, success |-> NoVal,
          playerOnline |-> NoVal]
    [] OTHER ->
         [threw |-> TRUE, body |-> FALSE, success |-> NoVal,
          playerOnline |-> NoVal]

\* The catch block of deliverItems: retry in one minute.
Caught == [threw |-> FALSE, delivered |-> FALSE, retryAfter |-> 60]

\* A deliverItems without its catch block.
deliverItems_Rethrow(outcome) ==
  LET response == makeRequest(outcome)
  IN IF response.threw \/ ~response.body
     THEN [threw |-> TRUE, delivered |-> FALSE, retryAfter |-> 0]
     ELSE IF response.success = "true"
     THEN [threw |-> FALSE, delivered |-> TRUE, retryAfter |-> 0]
     ELSE [threw |-> FALSE, delivered |-> FALSE,
           retryAfter |-> IF response.playerOnline = "false" THEN 300 ELSE 60]

\* FivemService.deliverItems: one attempt.  An Error of makeRequest and
\* the TypeError of reading a field of an empty body are caught.
\* retryAfter 0: the result carries no hint.
deliverItems(outcome) ==
  LET response == makeRequest(outcome)
  IN IF response.threw \/ ~response.body THEN Caught
     ELSE IF response.success = "true"
     THEN [threw |-> FALSE, delivered |-> TRUE, retryAfter |-> 0]
     ELSE [threw |-> FALSE, delivered |-> FALSE,
           retryAfter |-> IF response.playerOnline = "false" THEN 300 ELSE 60]

\* No delivery result in the answer.
NoDelivery == [threw |-> FALSE, delivered |-> FALSE, retryAfter |-> 0]

\* A caller that marks the grant failed when the attempt did not deliver.
markDelivered_OrFailed(G, g, deliveryResult) ==
  updateGrant(G, g, IF deliveryResult.delivered THEN "delivered" ELSE "failed")

\* A caller that marks the grant delivered whatever the attempt returned.
markDelivered_Always(G, g, deliveryResult) == updateGrant(G, g, "delivered")

\* if (deliveryResult.delivered) updateGrant(id, {status: "delivered"});
\* there is no else branch that writes to the grant.
markDelivered(G, g, deliveryResult) ==
  IF deliveryResult.delivered THEN updateGrant(G, g, "delivered") ELSE G

\* ----------------------------------------------------------------- Init
\* A second registered user, who has linked a game identity.
SecondUser ==
  [coins |-> 0, vipLevel |-> "none", vipExpires |-> 0,
   fivemIdentifier |-> "steam:2"]

\* The server after start-up: no transaction, no grant; the registered
\* user may or may not have linked a game identity.  expiries: the VIP
\* expiry dates the user may hold; secrets: the configurations of the
\* two payment webhook secrets; balances: the coin balances the user may
\* hold; gameSecrets: the configurations of the game server's secret.
SetupWith(expiries, secrets, balances, gameSecrets, stocks) ==
  /\ txs = [t \in TxIds |-> NoTx]
  /\ grants = <<>>
  /\ users \in {[u \in UserIds |->
                   IF u = 1
                   THEN [coins |-> c, vipLevel |-> "none", vipExpires |-> e,
                         fivemIdentifier |-> f]
                   ELSE SecondUser] :
                 e \in expiries, f \in {NoVal, "steam:1"}, c \in balances}
  /\ stock \in {[p \in ProductIds |-> IF p = 3 THEN n ELSE -1] : n \in stocks}
  /\ prices = [p \in ProductIds |-> Catalog[p].price]
  /\ logs = [a \in LogTags |-> 0]
  /\ req = [r \in Slots |-> IdleReq]
  /\ served = 0
  /\ last = NoAnswer
  /\ efiSecret \in secrets
  /\ webhookSecret \in secrets
  /\ fivemSecret \in gameSecrets
  /\ clock = 0
  /\ fulfillCalls = [t \in TxIds |-> 0]
  /\ events = [t \in TxIds |-> [approved |-> 0, other |-> 0]]
  /\ effects = [t \in TxIds |->
                 [coins |-> 0, coinsFrom |-> 0, vip |-> 0, vipAt |-> 0,
                  vipFrom |-> 0, applied |-> {}, faultItem |-> 0]]
  /\ expected = [u \in UserIds |-> users[u].coins]
  /\ attempts = <<>>

\* The same with one unit of the vehicle in stock.
Setup(expiries, secrets, balances, gameSecrets) ==
  SetupWith(expiries, secrets, balances, gameSecrets, {1})

Init == Setup({0}, {NoVal, "k1"}, {0}, {"k1"})

\* Time passes.
Tick ==
  /\ clock < MaxClock
  /\ clock' = clock + 1
  /\ UNCHANGED <<db, req, served, last, efiSecret, webhookSecret,
                 fivemSecret, hist>>

\* The handler of slot r goes on as rq.
Continue(r, rq) ==
  /\ req' = [req EXCEPT ![r] = rq]
  /\ last' = last

\* The handler of slot r answers with a status code and ends.
Respond(r, rq, code) ==
  /\ req' = [req EXCEPT ![r] = IdleReq]
  /\ last' = Answer(rq, code)

\* ------------------------------------------------------- createPayment
\* paymentController.createPayment up to the call of createPixPayment:
\* validates the items, snapshots them and inserts the pending transaction.
CreatePayment(r, cart) ==
  /\ r = 0 /\ req[r].kind = "idle"
  /\ \E t \in TxIds :
       /\ ~txs[t].exists
       /\ LET items == [k \in DOMAIN cart |->
                          LineItem(getProduct(cart[k].productId),
                                   cart[k].quantity)]
              short == \E k \in DOMAIN cart :
                         /\ stock[cart[k].productId] # -1
                         /\ stock[cart[k].productId] < cart[k].quantity
              totalAmount == SumSubtotals(items)
              rq == [IdleReq EXCEPT !.kind = "create", !.pc = "cp_pix",
                                    !.tx = t, !.uid = 1]
          IN /\ ~short /\ totalAmount > 0
             /\ txs' = [txs EXCEPT ![t] =
                      [exists |-> TRUE, status |-> "pending",
                       paymentId |-> NoVal, userId |-> 1,
                       amount |-> totalAmount, products |-> items]]
             /\ Continue(r, rq)
  /\ UNCHANGED <<grants, users, stock, prices, logs, served, env, hist>>

\* createPayment after createPixPayment returned (ok) or threw.
CreatePix(r, ok) ==
  /\ req[r].kind = "create" /\ req[r].pc = "cp_pix"
  /\ IF ok
     THEN /\ txs' = updateTransactionPaymentId(txs, req[r].tx, "p1")
          /\ logs' = logActivity(logs, "payment_created")
          /\ Respond(r, req[r], 201)
     ELSE /\ txs' = updateTransaction(txs, req[r].tx, "failed")
          /\ logs' = logs
          /\ Respond(r, req[r], 500)
  /\ UNCHANGED <<grants, users, stock, prices, served, env, hist>>

\* ------------------------------------------------------------- webhooks
\* History: a handler has resolved the transaction of an event.
Seen(E, t, status) ==
  IF status = "approved" THEN [E EXCEPT ![t].approved = @ + 1]
  ELSE [E EXCEPT ![t].other = @ + 1]

\* A dispatch that fulfills every approved event, whatever the status read.
ShouldFulfill_Always(status, previous) ==
  status = "approved"

\* if (status === "approved" && transaction.status !== "approved")
ShouldFulfill(status, previous) ==
  status = "approved" /\ previous # "approved"

\* handleEfiBankWebhook up to the first await: signature check, parse,
\* and the lookup of the transaction by payment id.
EfiStart(r, signature, txid, pix) ==
  /\ CanStart(r)
  /\ served' = served + 1
  /\ LET payload == <<txid, pix>>
         valid == validateWebhookSignature(payload, signature)
         found == FindByPaymentId(txid)
         base == [IdleReq EXCEPT !.kind = "efi",
                    !.sigGiven = (signature.len # 0),
                    !.verified = Authentic(payload, signature, efiSecret)]
     IN IF valid = "throw" THEN Respond(r, base, 500)
        ELSE IF valid = "false" THEN Respond(r, base, 401)
        ELSE IF found = {} THEN Respond(r, base, 404)
        ELSE LET t == CHOOSE x \in found : TRUE
             IN Continue(r, [base EXCEPT !.pc = "wh_update", !.tx = t,
                               !.old = txs[t].status,
                               !.uid = txs[t].userId,
                               !.ev = parseWebhookData(pix),
                               !.raw = pix])
  /\ events' = IF validateWebhookSignature(<<txid, pix>>, signature) = "true"
                  /\ FindByPaymentId(txid) # {}
               THEN Seen(events, CHOOSE x \in FindByPaymentId(txid) : TRUE,
                         parseWebhookData(pix))
               ELSE events
  /\ UNCHANGED <<db, env, fulfillCalls, effects, expected, attempts>>

\* handleGenericPaymentWebhook up to the first await: the signature is
\* checked only when a secret is configured and a signature was sent.
GenericStart(r, signature, transactionId, status, paymentId) ==
  /\ CanStart(r)
  /\ served' = served + 1
  /\ LET payload == <<transactionId, status, paymentId>>
         valid == IF webhookSecret # NoVal /\ signature.len # 0
                  THEN verifyWebhookSignature(payload, signature, webhookSecret)
                  ELSE "true"
         base == [IdleReq EXCEPT !.kind = "generic",
                    !.sigGiven = (signature.len # 0),
                    !.verified = Authentic(payload, signature, webhookSecret)]
     IN IF valid = "throw" THEN Respond(r, base, 500)
        ELSE IF valid = "false" THEN Respond(r, base, 401)
        ELSE IF transactionId = NoVal \/ status = NoVal
          THEN Respond(r, base, 400)
        ELSE IF transactionId \notin TxIds \/ ~txs[transactionId].exists
          THEN Respond(r, base, 404)
        ELSE Continue(r, [base EXCEPT !.pc = "wh_update",
                            !.tx = transactionId,
                            !.old = txs[transactionId].status,
                            !.uid = txs[transactionId].userId,
                            !.ev = status, !.raw = status,
                            !.pid = paymentId])
  /\ events' = IF req'[r].pc = "wh_update"
               THEN Seen(events, transactionId, status)
               ELSE events
  /\ UNCHANGED <<db, env, fulfillCalls, effects, expected, attempts>>

\* Both handlers after the lookup: the unconditional status update, the
\* webhook_received log row and the dispatch on the status, which compares
\* the event with the status read before the update.
WebhookApply(r) ==
  /\ req[r].pc = "wh_update"
  /\ LET t == req[r].tx
         withStatus == updateTransaction(txs, t, req[r].ev)
         logged == logActivity(logs, "webhook_received")
         rq == [req[r] EXCEPT !.wrote = TRUE]
     IN /\ txs' = IF req[r].pid # NoVal
                  THEN updateTransactionPaymentId(withStatus, t, req[r].pid)
                  ELSE withStatus
        /\ IF ShouldFulfill(req[r].ev, req[r].old)
           THEN /\ fulfillCalls' = [fulfillCalls EXCEPT ![t] = @ + 1]
                /\ logs' = logged
                /\ Continue(r, [rq EXCEPT !.pc = "pap_user"])
           ELSE IF req[r].ev \in {"cancelled", "failed"}
           THEN \* processFailedPayment: one payment_failed log row
                /\ fulfillCalls' = fulfillCalls
                /\ logs' = logActivity(logged, "payment_failed")
                /\ Respond(r, rq, 200)
           ELSE /\ fulfillCalls' = fulfillCalls
                /\ logs' = logged
                /\ Respond(r, rq, 200)
  /\ UNCHANGED <<grants, users, stock, prices, served, env, events, effects,
                 expected, attempts>>

EfiUpdate(r) == req[r].kind = "efi" /\ WebhookApply(r)

GenericUpdate(r) == req[r].kind = "generic" /\ WebhookApply(r)

\* ------------------------------------------- processApprovedPayment (webhook)
\* The line item a request is working on.
Item(r) == txs[req[r].tx].products[req[r].i]

NumItems(r) == Len(txs[req[r].tx].products)

\* const coinAmount = product.data?.amount || product.quantity * 100
coinAmount(item) ==
  IF item.data.amount # 0 THEN item.data.amount ELSE item.quantity * 100

\* const vipLevel = product.data?.level || "bronze"
vipLevelOf(item) ==
  IF item.data.level # NoVal THEN item.data.level ELSE "bronze"

\* const vipDuration = product.data?.duration || 30
vipDuration(item) ==
  IF item.data.duration # 0 THEN item.data.duration ELSE 30

\* An expiry that extends the period the user already holds.
vipExpires_Extend(now, current, duration) == Max(now, current) + duration

\* const vipExpires = new Date(Date.now() + vipDuration days)
vipExpires(now, current, duration) == now + duration

\* coins: user.coins + coinAmount, on the user row read at the start
creditCoins(snapshot, stored, amount) == snapshot + amount

\* Mutant: the difference, not floored.
decrementStock_Unfloored(current, quantity) == current - quantity

\* Math.max(0, currentProduct.stock - product.quantity)
decrementStock(current, quantity) == Max(0, current - quantity)

\* Where the second loop starts for line item k: the account effect of a
\* coins or vip item, the stock lookup of any other item.
EffectPc(t, k) ==
  IF txs[t].products[k].type \in {"coins", "vip"}
  THEN "pap_effect" ELSE "pap_stock"

\* processApprovedPayment: storage.getUser, the row every later step uses.
PAP_getUser(r) ==
  /\ req[r].pc = "pap_user"
  /\ Continue(r, [req[r] EXCEPT !.pc = "pap_grant", !.i = 1,
                    !.ucoins = users[req[r].uid].coins,
                    !.ulinked = users[req[r].uid].fivemIdentifier])
  /\ UNCHANGED <<db, served, env, hist>>

\* After the grant of line item i: the next grant, or the second loop.
AfterGrant(r) ==
  IF req[r].i < NumItems(r)
  THEN [req[r] EXCEPT !.pc = "pap_grant", !.i = @ + 1, !.g = 0]
  ELSE [req[r] EXCEPT !.pc = EffectPc(req[r].tx, 1), !.i = 1, !.g = 0]

\* First loop, one line item: createGrant and, for a user with a linked
\* identity, the call of fivemService.deliverItems.
PAP_createGrant(r) ==
  /\ req[r].pc = "pap_grant"
  /\ LET gid == Len(grants) + 1
         linked == req[r].ulinked # NoVal
     IN /\ grants' = createGrant(grants,
                       [transactionId |-> req[r].tx, userId |-> req[r].uid,
                        grantType |-> Item(r).type, item |-> req[r].i,
                        status |-> "pending", grantedBy |-> NoVal])
        /\ attempts' = Append(attempts,
                         [calls |-> IF linked THEN 1 ELSE 0, ok |-> 0,
                          retry |-> NoRetry, to |-> req[r].ulinked])
        /\ Continue(r, IF linked
                       THEN [req[r] EXCEPT !.pc = "pap_deliver", !.g = gid]
                       ELSE AfterGrant(r))
  /\ UNCHANGED <<txs, users, stock, prices, logs, served, env, fulfillCalls, events,
                 effects, expected>>

\* First loop: the delivery call returned; a delivered result marks the
\* grant delivered, any other result leaves the row alone.
PAP_deliver(r, outcome) ==
  /\ req[r].pc = "pap_deliver"
  /\ LET deliveryResult == deliverItems(outcome)
     IN IF deliveryResult.delivered
        THEN /\ grants' = markDelivered(grants, req[r].g, deliveryResult)
             /\ attempts' = [attempts EXCEPT ![req[r].g].ok = @ + 1]
        ELSE /\ grants' = markDelivered(grants, req[r].g, deliveryResult)
             /\ attempts' = attempts
  /\ Continue(r, AfterGrant(r))
  /\ UNCHANGED <<txs, users, stock, prices, logs, served, env, fulfillCalls, events,
                 effects, expected>>

\* Second loop, a coins or vip line item: the account effect.
PAP_effect(r) ==
  /\ req[r].pc = "pap_effect"
  /\ LET u == req[r].uid
     IN users' =
          IF Item(r).type = "coins"
          THEN [users EXCEPT ![u].coins =
                  creditCoins(req[r].ucoins, users[u].coins, coinAmount(Item(r)))]
          ELSE [users EXCEPT ![u].vipLevel = vipLevelOf(Item(r)),
                             ![u].vipExpires =
                  vipExpires(clock, users[u].vipExpires, vipDuration(Item(r)))]
  /\ effects' =
       IF Item(r).type = "coins"
       THEN [effects EXCEPT ![req[r].tx].applied = @ \cup {req[r].i},
                            ![req[r].tx].coins = @ + 1,
                            ![req[r].tx].coinsFrom =
                               IF effects[req[r].tx].coins = 0
                               THEN users[req[r].uid].coins ELSE @]
       ELSE [effects EXCEPT ![req[r].tx].applied = @ \cup {req[r].i},
                            ![req[r].tx].vip = @ + 1,
                            ![req[r].tx].vipAt = clock,
                            ![req[r].tx].vipFrom =
                               users[req[r].uid].vipExpires]
  /\ expected' =
       IF Item(r).type = "coins"
       THEN [expected EXCEPT ![req[r].uid] = @ + coinAmount(Item(r))]
       ELSE expected
  /\ Continue(r, [req[r] EXCEPT !.pc = "pap_stock"])
  /\ UNCHANGED <<txs, grants, stock, prices, logs, served, env, fulfillCalls, events,
                 attempts>>

\* After the stock handling of line item i: the next item, or the end.
AfterStock(r) ==
  IF req[r].i < NumItems(r)
  THEN [req[r] EXCEPT !.pc = EffectPc(req[r].tx, req[r].i + 1), !.i = @ + 1,
                      !.snap = 0]
  ELSE [req[r] EXCEPT !.pc = "pap_finish", !.snap = 0]

\* Second loop: product.stock !== -1 holds for every line item (the field
\* is undefined), so the product is looked up; a positive stock is
\* decremented in the next segment.
PAP_stockRead(r) ==
  /\ req[r].pc = "pap_stock"
  /\ LET current == stock[Item(r).productId]
     IN Continue(r, IF current > 0
                    THEN [req[r] EXCEPT !.pc = "pap_stock_write",
                                        !.snap = current]
                    ELSE AfterStock(r))
  /\ UNCHANGED <<db, served, env, hist>>

PAP_stockWrite(r) ==
  /\ req[r].pc = "pap_stock_write"
  /\ stock' = [stock EXCEPT ![Item(r).productId] =
                 decrementStock(req[r].snap, Item(r).quantity)]
  /\ Continue(r, AfterStock(r))
  /\ UNCHANGED <<txs, grants, users, prices, logs, served, env, hist>>

\* The payment_processed log row; the handler then answers 200.
PAP_finish(r) ==
  /\ req[r].pc = "pap_finish"
  /\ logs' = logActivity(logs, "payment_processed")
  /\ Respond(r, req[r], 200)
  /\ UNCHANGED <<txs, grants, users, stock, prices, served, env, hist>>

\* History: the first line item during whose processing a storage call
\* threw.
Faulted(E, t, k) ==
  [E EXCEPT ![t].faultItem = IF @ = 0 THEN k ELSE @]

\* A storage call of the loops throws outside the inner try block:
\* createGrant, the updateUser of an account effect, getProduct or
\* updateProduct.  Control passes to the catch block of the function.
PAP_throw(r) ==
  /\ req[r].pc \in {"pap_grant", "pap_effect", "pap_stock", "pap_stock_write"}
  /\ effects' = Faulted(effects, req[r].tx, req[r].i)
  /\ Continue(r, [req[r] EXCEPT !.pc = "pap_catch"])
  /\ UNCHANGED <<db, served, env, fulfillCalls, events, expected, attempts>>

\* The delivery returned delivered and updateGrant throws inside the
\* inner try block: logged, the loop goes on.
PAP_deliverThrow(r) ==
  /\ req[r].pc = "pap_deliver"
  /\ effects' = Faulted(effects, req[r].tx, req[r].i)
  /\ Continue(r, AfterGrant(r))
  /\ UNCHANGED <<db, served, env, fulfillCalls, events, expected, attempts>>

\* The catch block of processApprovedPayment: the transaction is marked
\* failed; the function returns and the webhook handler answers 200.
PAP_catch(r) ==
  /\ req[r].pc = "pap_catch"
  /\ txs' = updateTransaction(txs, req[r].tx, "failed")
  /\ Respond(r, req[r], 200)
  /\ UNCHANGED <<grants, users, stock, prices, logs, served, env, hist>>

\* One segment of processApprovedPayment.
Fulfill(r) ==
  \/ PAP_getUser(r)
  \/ PAP_createGrant(r)
  \/ \E outcome \in BoundaryOutcomes : PAP_deliver(r, outcome)
  \/ PAP_effect(r)
  \/ PAP_stockRead(r)
  \/ PAP_stockWrite(r)
  \/ PAP_finish(r)

\* ---------------------------------------------------------- manualGrant
\* Fields of the request record in the handlers below: ev holds the grant
\* type or the operation, snap the amount, ucoins and ulinked the user row
\* read at the start, g the grant.
AdminId == "admin"

\* let delivered: true after a delivered result, and set to true for a
\* coins grant; status: delivered ? "delivered" : "pending" in the answer.
reportedDelivered(delivered, grantType) == delivered \/ grantType = "coins"

\* adminController.manualGrant up to storage.getUser.
MG_getUser(r, userId, grantType, amount) ==
  /\ CanStart(r)
  /\ served' = served + 1
  /\ IF userId \notin UserIds
     THEN Respond(r, [IdleReq EXCEPT !.kind = "manual"], 404)
     ELSE Continue(r, [IdleReq EXCEPT !.kind = "manual", !.pc = "mg_grant",
                         !.uid = userId, !.ev = grantType, !.snap = amount,
                         !.ucoins = users[userId].coins,
                         !.ulinked = users[userId].fivemIdentifier])
  /\ UNCHANGED <<db, env, hist>>

\* manualGrant: createGrant, then the delivery call for a linked user.
MG_createGrant(r) ==
  /\ req[r].kind = "manual" /\ req[r].pc = "mg_grant"
  /\ LET gid == Len(grants) + 1
         linked == req[r].ulinked # NoVal
     IN /\ grants' = createGrant(grants,
                       [transactionId |-> NoVal, userId |-> req[r].uid,
                        grantType |-> req[r].ev, item |-> 0,
                        status |-> "pending", grantedBy |-> AdminId])
        /\ attempts' = Append(attempts,
                         [calls |-> IF linked THEN 1 ELSE 0, ok |-> 0,
                          retry |-> NoRetry, to |-> req[r].ulinked])
        /\ Continue(r, [req[r] EXCEPT !.g = gid,
                         !.pc = IF linked THEN "mg_deliver" ELSE "mg_effect"])
  /\ UNCHANGED <<txs, users, stock, prices, logs, served, env, fulfillCalls, events,
                 effects, expected>>

\* manualGrant: the delivery call returned.
MG_deliver(r, outcome) ==
  /\ req[r].kind = "manual" /\ req[r].pc = "mg_deliver"
  /\ LET deliveryResult == deliverItems(outcome)
     IN IF deliveryResult.delivered
        THEN /\ grants' = markDelivered(grants, req[r].g, deliveryResult)
             /\ attempts' = [attempts EXCEPT ![req[r].g].ok = @ + 1]
        ELSE /\ grants' = markDelivered(grants, req[r].g, deliveryResult)
             /\ attempts' = attempts
  /\ Continue(r, [req[r] EXCEPT !.pc = "mg_effect",
                                !.delivery.delivered =
                                  deliverItems(outcome).delivered])
  /\ UNCHANGED <<txs, users, stock, prices, logs, served, env, fulfillCalls, events,
                 effects, expected>>

\* manualGrant: the coin credit of a coins grant, the log row, the answer.
\* The answer carries the status reported for the grant in delivery.delivered.
MG_effect(r) ==
  /\ req[r].kind = "manual" /\ req[r].pc = "mg_effect"
  /\ LET u == req[r].uid
     IN IF req[r].ev = "coins"
        THEN /\ users' = [users EXCEPT ![u].coins =
                            creditCoins(req[r].ucoins, users[u].coins,
                                        req[r].snap)]
             /\ expected' = [expected EXCEPT ![u] = @ + req[r].snap]
        ELSE /\ users' = users
             /\ expected' = expected
  /\ logs' = logActivity(logs, "manual_grant_created")
  /\ Respond(r, [req[r] EXCEPT !.delivery.delivered =
                               reportedDelivered(@, req[r].ev)], 200)
  /\ UNCHANGED <<txs, grants, stock, prices, served, env, fulfillCalls, events,
                 effects, attempts>>

ManualGrant(r) ==
  \/ MG_createGrant(r)
  \/ \E outcome \in BoundaryOutcomes : MG_deliver(r, outcome)
  \/ MG_effect(r)

\* ---------------------------------------------------------- updateCoins
\* let newCoins = user.coins; add: += amount; subtract: Math.max(0, -)
newCoins(coins, operation, amount) ==
  IF operation = "add" THEN coins + amount ELSE Max(0, coins - amount)

\* userController.updateCoins up to storage.getUser.
UC_getUser(r, amount, operation) ==
  /\ CanStart(r)
  /\ served' = served + 1
  /\ IF amount <= 0
     THEN Respond(r, [IdleReq EXCEPT !.kind = "coins"], 400)
     ELSE Continue(r, [IdleReq EXCEPT !.kind = "coins", !.pc = "uc_write",
                         !.uid = 1, !.ev = operation, !.snap = amount,
                         !.ucoins = users[1].coins])
  /\ UNCHANGED <<db, env, hist>>

\* updateCoins: the new balance from the row read, updateUser, the log row.
UC_write(r) ==
  /\ req[r].kind = "coins" /\ req[r].pc = "uc_write"
  /\ LET u == req[r].uid
     IN IF req[r].ev \in {"add", "subtract"}
        THEN /\ users' = [users EXCEPT ![u].coins =
                            newCoins(req[r].ucoins, req[r].ev, req[r].snap)]
             /\ expected' = [expected EXCEPT ![u] =
                               newCoins(@, req[r].ev, req[r].snap)]
             /\ logs' = logActivity(logs, "coins_updated")
             /\ Respond(r, req[r], 200)
        ELSE /\ UNCHANGED <<users, expected, logs>>
             /\ Respond(r, req[r], 400)
  /\ UNCHANGED <<txs, grants, stock, prices, served, env, fulfillCalls, events,
                 effects, attempts>>

\* ------------------------------------------- serverController.deliverItems
\* identifier.split(":"): the part before the first colon and the rest
\* ("none": there is no colon).
split(identifier) ==
  CASE identifier \in {"steam:1", "steam:2", "steam:9"} -> <<"steam", "id">>
    [] identifier = "evil:1" -> <<"evil", "id">>
    [] identifier = "steam" -> <<"steam", NoVal>>
    [] OTHER -> <<identifier, NoVal>>

validPrefixes == {"steam", "license", "discord", "fivem", "live", "xbl"}

\* FivemService.validateIdentifier: the prefix is one of the known ones.
validateIdentifier(identifier) ==
  split(identifier)[1] \in validPrefixes

\* A validator that accepts every string.
fivemIdentifier_Any(identifier) == TRUE

\* validators.fivemIdentifier, the schema of the request bodies:
\* /^(steam|license|discord|fivem|live|xbl):[a-zA-Z0-9]+$/
fivemIdentifier(identifier) ==
  /\ split(identifier)[1] \in validPrefixes
  /\ split(identifier)[2] # NoVal

\* ----------------------------------------- authController.updateProfile
\* PUT /api/auth/me with body {fivemIdentifier}: the body is validated
\* against updateUserValidation, then the identifier is stored and the
\* change logged.  The handler awaits storage calls only and takes no
\* request slot.
updateProfile(userId, identifier) ==
  /\ served' = served + 1
  /\ IF fivemIdentifier(identifier)
     THEN /\ users' = [users EXCEPT ![userId].fivemIdentifier = identifier]
          /\ logs' = logActivity(logs, "profile_updated")
     ELSE UNCHANGED <<users, logs>>
  /\ UNCHANGED <<txs, grants, stock, prices, req, last, env, hist>>

\* users.find(u => u.fivemIdentifier === userIdentifier)
FindByIdentifier(identifier) ==
  {u \in UserIds : users[u].fivemIdentifier = identifier}

\* deliverItems (manual) up to storage.getAllUsers and the lookup.
SD_findUser(r, userIdentifier, grantType) ==
  /\ CanStart(r)
  /\ served' = served + 1
  /\ LET base == [IdleReq EXCEPT !.kind = "deliver"]
         found == FindByIdentifier(userIdentifier)
     IN IF ~fivemIdentifier(userIdentifier) THEN Respond(r, base, 400)
        ELSE IF ~validateIdentifier(userIdentifier) THEN Respond(r, base, 400)
        ELSE IF found = {} THEN Respond(r, base, 404)
        ELSE Continue(r, [base EXCEPT !.pc = "sd_grant",
                            !.uid = CHOOSE u \in found : TRUE,
                            !.ulinked = userIdentifier,
                            !.ev = grantType])
  /\ UNCHANGED <<db, env, hist>>

\* deliverItems (manual): createGrant, then deliverItemsWithRetry starts.
SD_createGrant(r) ==
  /\ req[r].kind = "deliver" /\ req[r].pc = "sd_grant"
  /\ grants' = createGrant(grants,
                 [transactionId |-> NoVal, userId |-> req[r].uid,
                  grantType |-> req[r].ev, item |-> 0,
                  status |-> "pending", grantedBy |-> AdminId])
  /\ attempts' = Append(attempts,
                       [calls |-> 0, ok |-> 0, retry |-> NoRetry,
                        to |-> NoVal])
  /\ Continue(r, [req[r] EXCEPT !.pc = "sd_attempt", !.i = 1,
                                !.g = Len(grants) + 1])
  /\ UNCHANGED <<txs, users, stock, prices, logs, served, env, fulfillCalls, events,
                 effects, expected>>

\* A retry loop that makes one attempt more.
moreAttempts_OneMore(attempt) == attempt <= retryAttempts

\* for (attempt = 1; attempt <= this.retryAttempts; attempt++): after a
\* failed attempt the loop goes on while the next one is within the budget.
moreAttempts(attempt) == attempt < retryAttempts

\* A retry loop that also waits after the final attempt.
DelayAfter_Every(attempt) == attempt <= retryAttempts

\* if (attempt < this.retryAttempts): the delay before the next attempt
DelayAfter(attempt) == attempt < retryAttempts

\* History of one call of deliverItemsWithRetry: the attempt returned
\* delivered or not, and the delay that follows a failed attempt.
Retried(rt, attempt, delivered) ==
  [calls |-> rt.calls + 1,
   fails |-> rt.fails + (IF delivered THEN 0 ELSE 1),
   delays |-> rt.delays + (IF ~delivered /\ DelayAfter(attempt) THEN 1 ELSE 0),
   result |-> IF delivered THEN "delivered"
              ELSE IF attempt < retryAttempts THEN NoVal ELSE "failed"]

\* deliverItemsWithRetry: attempt i returned.  A delivered result ends the
\* loop; a failed attempt before the last one is followed by the delay;
\* after the last attempt the handler marks the grant failed.
SD_attempt(r, outcome) ==
  /\ req[r].kind = "deliver" /\ req[r].pc = "sd_attempt"
  /\ LET lastResult == deliverItems(outcome)
         g == req[r].g
         tried == [attempts EXCEPT
                     ![g].calls = @ + 1,
                     ![g].to = req[r].ulinked,
                     ![g].ok = @ + (IF lastResult.delivered THEN 1 ELSE 0),
                     ![g].retry = Retried(@, req[r].i, lastResult.delivered)]
     IN /\ attempts' = tried
        /\ IF lastResult.delivered
           THEN /\ grants' = updateGrant(grants, g, "delivered")
                /\ logs' = logActivity(logs, "manual_delivery")
                /\ Respond(r, [req[r] EXCEPT !.delivery = lastResult], 200)
           ELSE IF moreAttempts(req[r].i)
           THEN /\ Continue(r, [req[r] EXCEPT !.i = @ + 1])
                /\ UNCHANGED <<grants, logs>>
           ELSE /\ grants' = updateGrant(grants, g, "failed")
                /\ logs' = logActivity(logs, "manual_delivery")
                /\ Respond(r, [req[r] EXCEPT !.delivery = lastResult], 200)
  /\ UNCHANGED <<txs, users, stock, prices, served, env, fulfillCalls, events,
                 effects, expected>>

ServerDeliver(r) ==
  \/ SD_createGrant(r)
  \/ \E outcome \in BoundaryOutcomes : SD_attempt(r, outcome)

\* ------------------------------------------------ processPendingDeliveries
Min(S) == CHOOSE x \in S : \A y \in S : x <= y

\* A loop that skips no grant.
noIdentifier_Never(user) == FALSE

\* if (!user || !user.fivemIdentifier): the grant is skipped
noIdentifier(user) == user.fivemIdentifier = NoVal

\* processPendingDeliveries up to storage.getPendingGrants.
PPD_getPending(r) ==
  /\ CanStart(r)
  /\ served' = served + 1
  /\ Continue(r, [IdleReq EXCEPT !.kind = "bulk", !.pc = "ppd_user",
                                 !.queue = getPendingGrants(grants),
                                 !.pending0 = getPendingGrants(grants)])
  /\ UNCHANGED <<db, env, hist>>

\* The loop, next grant: processed++ and storage.getUser; a user without
\* an identifier is skipped.  After the last grant: the log row and the
\* answer.
PPD_getUser(r) ==
  /\ req[r].kind = "bulk" /\ req[r].pc = "ppd_user"
  /\ IF req[r].queue = {}
     THEN /\ logs' = logActivity(logs, "bulk_delivery_processed")
          /\ Respond(r, req[r], 200)
     ELSE LET g == Min(req[r].queue)
              counted == [req[r] EXCEPT !.results.processed = @ + 1]
          IN /\ logs' = logs
             /\ Continue(r,
                  IF noIdentifier(users[grants[g].userId])
                  THEN [counted EXCEPT !.results.skipped = @ + 1,
                                       !.queue = @ \ {g}]
                  ELSE [counted EXCEPT !.pc = "ppd_deliver", !.g = g,
                         !.ulinked = users[grants[g].userId].fivemIdentifier])
  /\ UNCHANGED <<txs, grants, users, stock, prices, served, env, hist>>

\* The loop: the single delivery attempt of a grant returned.
PPD_deliver(r, outcome) ==
  /\ req[r].kind = "bulk" /\ req[r].pc = "ppd_deliver"
  /\ LET deliveryResult == deliverItems(outcome)
         g == req[r].g
         next == [req[r] EXCEPT !.pc = "ppd_user", !.g = 0,
                                !.queue = @ \ {g},
                                !.tried = Append(@, g)]
     IN IF deliveryResult.delivered
        THEN /\ grants' = markDelivered(grants, g, deliveryResult)
             /\ attempts' = [attempts EXCEPT ![g].calls = @ + 1,
                                             ![g].to = req[r].ulinked,
                                             ![g].ok = @ + 1]
             /\ Continue(r, [next EXCEPT !.results.delivered = @ + 1])
        ELSE /\ grants' = markDelivered(grants, g, deliveryResult)
             /\ attempts' = [attempts EXCEPT ![g].calls = @ + 1,
                                             ![g].to = req[r].ulinked]
             /\ Continue(r, [next EXCEPT !.results.failed = @ + 1])
  /\ UNCHANGED <<txs, users, stock, prices, logs, served, env, fulfillCalls, events,
                 effects, expected>>

ProcessPending(r) ==
  \/ PPD_getUser(r)
  \/ \E outcome \in BoundaryOutcomes : PPD_deliver(r, outcome)

\* ---------------------------------------------- handleDeliveryConfirmation
\* handleDeliveryConfirmation up to storage.getGrant: the optional
\* signature check, the required fields, the lookup.  grantId 0 and the
\* values NoVal stand for absent fields.
DC_getGrant(r, signature, grantId, status, identifier) ==
  /\ CanStart(r)
  /\ served' = served + 1
  /\ LET payload == <<grantId, status, identifier>>
         checked == fivemSecret # NoVal /\ signature.len # 0
         valid == IF checked
                  THEN verifyWebhookSignature(payload, signature, fivemSecret)
                  ELSE "true"
         base == [IdleReq EXCEPT !.kind = "confirm",
                    !.sigGiven = signature.len # 0,
                    !.verified = Authentic(payload, signature, fivemSecret)]
     IN IF valid = "throw" THEN Respond(r, base, 500)
        ELSE IF valid = "false" THEN Respond(r, base, 401)
        ELSE IF grantId = 0 \/ status = NoVal \/ identifier = NoVal
        THEN Respond(r, base, 400)
        ELSE IF grantId \notin DOMAIN grants THEN Respond(r, base, 404)
        ELSE Continue(r, [base EXCEPT !.pc = "dc_update", !.g = grantId,
                            !.ev = status])
  /\ UNCHANGED <<db, env, hist>>

\* handleDeliveryConfirmation: updateGrant with the status of the payload,
\* the item_delivered log row, the answer.
DC_update(r) ==
  /\ req[r].kind = "confirm" /\ req[r].pc = "dc_update"
  /\ grants' = updateGrant(grants, req[r].g, req[r].ev)
  /\ logs' = logActivity(logs, "item_delivered")
  /\ Respond(r, [req[r] EXCEPT !.wrote = TRUE], 200)
  /\ UNCHANGED <<txs, users, stock, prices, served, env, hist>>

\* ------------------------------------------------------- cancelPayment
\* paymentController.cancelPayment up to the provider call: the lookup, the
\* ownership check of a non-admin requester and the check of the status
\* read.  The row read is kept; the provider call is awaited next.
CX_getTransaction(r, transactionId, userId) ==
  /\ CanStart(r)
  /\ served' = served + 1
  /\ LET rq == [IdleReq EXCEPT !.kind = "cancel", !.tx = transactionId,
                               !.uid = userId]
     IN IF transactionId \notin TxIds
        THEN Respond(r, rq, 404)
        ELSE IF ~txs[transactionId].exists
        THEN Respond(r, rq, 404)
        ELSE IF txs[transactionId].userId # userId
        THEN Respond(r, rq, 403)
        ELSE IF txs[transactionId].status # "pending"
        THEN Respond(r, rq, 400)
        ELSE Continue(r, [rq EXCEPT !.pc = "cx_update",
                                    !.old = txs[transactionId].status])
  /\ UNCHANGED <<db, env, hist>>

\* cancelPayment after efiService.cancelPayment returned (it never throws
\* and its result is not read): the unconditional update to cancelled and
\* the payment_cancelled log row.
CX_update(r) ==
  /\ req[r].kind = "cancel" /\ req[r].pc = "cx_update"
  /\ txs' = updateTransaction(txs, req[r].tx, "cancelled")
  /\ logs' = logActivity(logs, "payment_cancelled")
  /\ Respond(r, [req[r] EXCEPT !.wrote = TRUE], 200)
  /\ UNCHANGED <<grants, users, stock, prices, served, env, hist>>

\* ---------------------------------------------------- getPaymentStatus
\* What efiService.getPaymentStatus may give: one of the three statuses of
\* the mock, approved or pending from the provider, or an exception.
ProviderStatus == {"pending", "approved", "cancelled", "threw"}

\* paymentController.getPaymentStatus up to the provider call: the lookup
\* and the ownership check; only a pending transaction with a payment id
\* is looked up at the provider.
GP_getTransaction(r, transactionId, userId) ==
  /\ CanStart(r)
  /\ served' = served + 1
  /\ LET rq == [IdleReq EXCEPT !.kind = "poll", !.tx = transactionId,
                               !.uid = userId]
     IN IF transactionId \notin TxIds
        THEN Respond(r, rq, 404)
        ELSE IF ~txs[transactionId].exists
        THEN Respond(r, rq, 404)
        ELSE IF txs[transactionId].userId # userId
        THEN Respond(r, rq, 403)
        ELSE IF /\ txs[transactionId].status = "pending"
                /\ txs[transactionId].paymentId # NoVal
        THEN Continue(r, [rq EXCEPT !.pc = "gp_status",
                                    !.old = txs[transactionId].status])
        ELSE Respond(r, rq, 200)
  /\ UNCHANGED <<db, env, hist>>

\* getPaymentStatus after the provider answered: a status that differs
\* from the one read is written to the row, without a log row; an approved
\* one is then processed.  An exception answers with the row as read.
GP_status(r, paymentStatus) ==
  /\ req[r].kind = "poll" /\ req[r].pc = "gp_status"
  /\ IF paymentStatus = "threw" \/ paymentStatus = req[r].old
     THEN /\ Respond(r, req[r], 200)
          /\ UNCHANGED <<txs, fulfillCalls>>
     ELSE /\ txs' = updateTransaction(txs, req[r].tx, paymentStatus)
          /\ IF paymentStatus = "approved"
             THEN /\ Continue(r, [req[r] EXCEPT !.pc = "gp_grants",
                                                !.wrote = TRUE])
                  /\ fulfillCalls' =
                       [fulfillCalls EXCEPT ![req[r].tx] = @ + 1]
             ELSE /\ Respond(r, [req[r] EXCEPT !.wrote = TRUE], 200)
                  /\ UNCHANGED fulfillCalls
  /\ UNCHANGED <<grants, users, stock, prices, logs, served, env, events,
                 effects, expected, attempts>>

\* The grant rows paymentController's processApprovedPayment inserts, one
\* per line item, all pending.
RECURSIVE PendingGrantsOf(_, _, _)
PendingGrantsOf(t, items, k) ==
  IF k = 0 THEN <<>>
  ELSE Append(PendingGrantsOf(t, items, k - 1),
              [transactionId |-> t, userId |-> txs[t].userId,
               grantType |-> items[k].type, item |-> k,
               status |-> "pending", grantedBy |-> NoVal])

\* paymentController's processApprovedPayment: a pending grant per line
\* item, no delivery, no account effect, no log row; then the answer.
GP_grants(r) ==
  /\ req[r].kind = "poll" /\ req[r].pc = "gp_grants"
  /\ LET t == req[r].tx
         n == Len(txs[t].products)
     IN /\ grants' = grants \o PendingGrantsOf(t, txs[t].products, n)
        /\ attempts' = attempts \o
                         [k \in 1..n |-> [calls |-> 0, ok |-> 0,
                                          retry |-> NoRetry, to |-> NoVal]]
  /\ Respond(r, req[r], 200)
  /\ UNCHANGED <<txs, users, stock, prices, logs, served, env, fulfillCalls,
                 events, effects, expected>>

\* ---------------------------------------------- adminController.updateProduct
\* The prices an administrator may give a product.
PricesOf(p) == {Catalog[p].price, Catalog[p].price + PriceStep}

\* PUT /api/admin/products/:id with body {price}: 404 for an unknown
\* product, else the row is updated and the change logged.  The handler
\* awaits storage calls only and takes no request slot.
updateProduct(productId, price) ==
  /\ served' = served + 1
  /\ IF productId \in ProductIds
     THEN /\ prices' = [prices EXCEPT ![productId] = price]
          /\ logs' = logActivity(logs, "product_updated")
     ELSE UNCHANGED <<prices, logs>>
  /\ UNCHANGED <<txs, grants, users, stock, req, last, env, hist>>

\* ------------------------------------------------------- specifications
Quiet == \A q \in Slots : req[q].kind = "idle"

\* The server is configured with the secrets shared with the senders.
InitSecured == Setup({0}, {"k1"}, {0}, {"k1"})

Checkout(r) ==
  \/ \E cart \in Carts : CreatePayment(r, cart)
  \/ \E ok \in BOOLEAN : CreatePix(r, ok)

\* A request to /api/webhooks/efibank from any sender.
EfiArrives(r) ==
  \E txid \in {"p1", "p2", NoVal}, pix \in PixStatus :
    \E signature \in Sigs(<<txid, pix>>) : EfiStart(r, signature, txid, pix)

\* A request to /api/webhooks/payment from any sender.
GenericArrives(r) ==
  \E transactionId \in TxIds \cup {"t9", NoVal},
     status \in TxStatus \cup {"refunded", NoVal},
     paymentId \in {NoVal, "p2"} :
    \E signature \in Sigs(<<transactionId, status, paymentId>>) :
      GenericStart(r, signature, transactionId, status, paymentId)

\* An event of the provider about its charge p1, signed with the secret.
EfiEvent(r) ==
  \E pix \in PixStatus \ {NoVal} :
    EfiStart(r, hashWebhookPayload(<<"p1", pix>>, "k1"), "p1", pix)

\* An event about transaction t1 in the generic envelope, signed with the
\* secret.
GenericEvent(r) ==
  \E status \in TxStatus :
    GenericStart(r, hashWebhookPayload(<<"t1", status, NoVal>>, "k1"),
                 "t1", status, NoVal)

\* SpecAuth: a checkout and requests of any sender to the two webhook
\* endpoints, one request at a time, under every configuration of secrets.
NextAuth ==
  \E r \in Slots :
    \/ Checkout(r)
    \/ Quiet /\ served < MaxAuth /\ EfiArrives(r)
    \/ Quiet /\ served < MaxAuth /\ GenericArrives(r)
    \/ EfiUpdate(r)
    \/ GenericUpdate(r)
    \/ Fulfill(r)

SpecAuth == Init /\ [][NextAuth]_vars

\* SpecSerial: a checkout and signed events about it, one at a time.
NextSerial ==
  \E r \in Slots :
    \/ Checkout(r)
    \/ Quiet /\ served < MaxReq /\ EfiEvent(r)
    \/ Quiet /\ served < MaxReq /\ GenericEvent(r)
    \/ EfiUpdate(r)
    \/ GenericUpdate(r)
    \/ Fulfill(r)

SpecSerial == InitSecured /\ [][NextSerial]_vars

\* Spec: a checkout and signed events about it, handled concurrently.
Next ==
  \E r \in Slots :
    \/ Checkout(r)
    \/ served < MaxRace /\ EfiEvent(r)
    \/ served < MaxRace /\ GenericEvent(r)
    \/ EfiUpdate(r)
    \/ GenericUpdate(r)
    \/ Fulfill(r)

Spec == InitSecured /\ [][Next]_vars

\* SpecScenario: a checkout by a user who may already hold coins and a VIP
\* period, then approved events about it, one at a time, while time
\* passes.
InitScenario == Setup({0, FarExpiry}, {"k1"}, {0, SomeCoins}, {"k1"})

ApprovedEvent(r) ==
  \/ EfiStart(r, hashWebhookPayload(<<"p1", "CONCLUIDA">>, "k1"),
              "p1", "CONCLUIDA")
  \/ GenericStart(r, hashWebhookPayload(<<"t1", "approved", NoVal>>, "k1"),
                  "t1", "approved", NoVal)

NextScenario ==
  \/ Tick
  \/ \E r \in Slots :
       \/ Checkout(r)
       \/ Quiet /\ served < MaxDeliveries /\ ApprovedEvent(r)
       \/ EfiUpdate(r)
       \/ GenericUpdate(r)
       \/ Fulfill(r)

SpecScenario == InitScenario /\ [][NextScenario]_vars

\* SpecBalance: a checkout, approved events, admin grants and coin
\* updates for one user, handled concurrently.
InitBalance == Setup({0}, {"k1"}, {SomeCoins}, {"k1"})

ManualGrantArrives(r) ==
  \E userId \in {1, 9}, grantType \in {"coins", "item"},
     amount \in {0 - CoinStep, 0, GrantAmount} :
    MG_getUser(r, userId, grantType, amount)

UpdateCoinsArrives(r) ==
  \E amount \in {0, CoinStep}, operation \in {"add", "subtract", "set"} :
    UC_getUser(r, amount, operation)

NextBalance ==
  \E r \in Slots :
    \/ Checkout(r)
    \/ served < MaxRace /\ ApprovedEvent(r)
    \/ served < MaxRace /\ ManualGrantArrives(r)
    \/ served < MaxRace /\ UpdateCoinsArrives(r)
    \/ EfiUpdate(r)
    \/ GenericUpdate(r)
    \/ Fulfill(r)
    \/ ManualGrant(r)
    \/ UC_write(r)

SpecBalance == InitBalance /\ [][NextBalance]_vars

\* SpecGrants: a checkout, approved events, and the operations on grants
\* (manual delivery, bulk processing of the pending queue, delivery
\* confirmations of the game server), one request at a time.
InitGrants == Setup({0}, {"k1"}, {0}, {NoVal, "k1"})

ServerDeliverArrives(r) ==
  \E userIdentifier \in {"steam:1", "steam:9", "bad"},
     grantType \in {"item"} :
    SD_findUser(r, userIdentifier, grantType)

ConfirmationArrives(r) ==
  \E grantId \in 0..2, status \in GrantStatus \cup {NoVal},
     identifier \in {"steam:1", NoVal} :
    \E signature \in {NoSig, ShortSig,
                      hashWebhookPayload(<<grantId, status, identifier>>, "k1"),
                      hashWebhookPayload(<<grantId, status, identifier>>, "kx")} :
      DC_getGrant(r, signature, grantId, status, identifier)

NextGrants ==
  \E r \in Slots :
    \/ Checkout(r)
    \/ Quiet /\ served < MaxGrantOps /\ ApprovedEvent(r)
    \/ Quiet /\ served < MaxGrantOps /\ ServerDeliverArrives(r)
    \/ Quiet /\ served < MaxGrantOps /\ PPD_getPending(r)
    \/ Quiet /\ served < MaxGrantOps /\ ConfirmationArrives(r)
    \/ EfiUpdate(r)
    \/ GenericUpdate(r)
    \/ Fulfill(r)
    \/ ServerDeliver(r)
    \/ ProcessPending(r)
    \/ DC_update(r)

SpecGrants == InitGrants /\ [][NextGrants]_vars

\* SpecLive: a purchase of a user with a linked identity, and the bulk
\* delivery invoked again and again while a grant is pending.  The game
\* server answers anything until the clock reaches MaxClock and accepts
\* every bulk delivery from then on.  The bulk delivery may be invoked
\* MaxLiveOps times while the server still refuses and once more after it
\* has started to accept.  Every step that can be taken is taken at last.
InitLive == InitSecured /\ users[1].fivemIdentifier # NoVal

Accepting == clock = MaxClock

LiveOutcomes == IF Accepting THEN {"success"} ELSE BoundaryOutcomes

BulkArrives(r) ==
  /\ Quiet
  /\ getPendingGrants(grants) # {}
  /\ served < (IF Accepting THEN MaxLiveOps + 1 ELSE MaxLiveOps)
  /\ PPD_getPending(r)

NextLive ==
  \/ Tick
  \/ \E r \in Slots :
       \/ Checkout(r)
       \/ Quiet /\ served < MaxLiveOps /\ ApprovedEvent(r)
       \/ BulkArrives(r)
       \/ EfiUpdate(r)
       \/ GenericUpdate(r)
       \/ Fulfill(r)
       \/ PPD_getUser(r)
       \/ \E outcome \in LiveOutcomes : PPD_deliver(r, outcome)

SpecLive == InitLive /\ [][NextLive]_vars /\ WF_vars(NextLive)

\* SpecStock: a checkout with quantities 1 and 2 of a catalog that holds 1
\* or MoreStock vehicles, and events that approve the transaction and set
\* it back to pending, one at a time, so that it is fulfilled repeatedly.
InitStock == SetupWith({0}, {"k1"}, {0}, {"k1"}, {1, MoreStock})

PendingEvent(r) ==
  GenericStart(r, hashWebhookPayload(<<"t1", "pending", NoVal>>, "k1"),
               "t1", "pending", NoVal)

NextStock ==
  \E r \in Slots :
    \/ \E cart \in CartsOf({1, 2}) : CreatePayment(r, cart)
    \/ \E ok \in BOOLEAN : CreatePix(r, ok)
    \/ Quiet /\ served < MaxStockRuns /\ ApprovedEvent(r)
    \/ Quiet /\ served < MaxStockRuns /\ PendingEvent(r)
    \/ EfiUpdate(r)
    \/ GenericUpdate(r)
    \/ Fulfill(r)

SpecStock == InitStock /\ [][NextStock]_vars

\* SpecCancel: a checkout, cancel requests and status polls of its owner
\* or of another user, and approved events, all of them concurrent.
CancelArrives(r) ==
  \E transactionId \in {"t1", "t9"}, userId \in UserIds :
    CX_getTransaction(r, transactionId, userId)

PollArrives(r) ==
  \E transactionId \in {"t1", "t9"}, userId \in UserIds :
    GP_getTransaction(r, transactionId, userId)

NextCancel ==
  \E r \in Slots :
    \/ Checkout(r)
    \/ served < MaxCancelOps /\ CancelArrives(r)
    \/ served < MaxCancelOps /\ PollArrives(r)
    \/ served < MaxCancelOps /\ ApprovedEvent(r)
    \/ CX_update(r)
    \/ \E paymentStatus \in ProviderStatus : GP_status(r, paymentStatus)
    \/ GP_grants(r)
    \/ EfiUpdate(r)
    \/ GenericUpdate(r)
    \/ Fulfill(r)

SpecCancel == InitSecured /\ [][NextCancel]_vars

\* SpecPricing: a checkout with quantities 1 and 2, price updates by an
\* administrator at any moment, and approved events, one at a time.
PriceUpdateArrives ==
  \E productId \in {1, 3, 9} :
    \E price \in (IF productId \in ProductIds THEN PricesOf(productId)
                   ELSE {PriceStep}) :
      updateProduct(productId, price)

NextPricing ==
  \/ served < MaxPricingOps /\ PriceUpdateArrives
  \/ \E r \in Slots :
       \/ \E cart \in CartsOf({1, 2}) : CreatePayment(r, cart)
       \/ \E ok \in BOOLEAN : CreatePix(r, ok)
       \/ Quiet /\ served < MaxPricingOps /\ ApprovedEvent(r)
       \/ EfiUpdate(r)
       \/ GenericUpdate(r)
       \/ Fulfill(r)

SpecPricing == InitSecured /\ [][NextPricing]_vars

\* SpecFault: a checkout and approved events about it, one at a time,
\* where storage calls of fulfillment may throw.
NextFault ==
  \E r \in Slots :
    \/ Checkout(r)
    \/ Quiet /\ served < MaxFaultRuns /\ ApprovedEvent(r)
    \/ EfiUpdate(r)
    \/ GenericUpdate(r)
    \/ Fulfill(r)
    \/ PAP_throw(r)
    \/ PAP_deliverThrow(r)
    \/ PAP_catch(r)

SpecFault == InitSecured /\ [][NextFault]_vars

\* SpecDelivery: admin grants and manual deliveries for two users, and
\* bulk processing of the pending queue, handled concurrently.
InitDelivery == Setup({0}, {"k1"}, {0}, {"k1"})

AdminGrantArrives(r) ==
  \E userId \in UserIds : MG_getUser(r, userId, "item", 0)

ManualDeliveryArrives(r) ==
  \E userIdentifier \in {"steam:2", "steam:9", "bad"} :
    SD_findUser(r, userIdentifier, "item")

NextDelivery ==
  \E r \in Slots :
    \/ served < MaxDeliveryOps /\ AdminGrantArrives(r)
    \/ served < MaxDeliveryOps /\ ManualDeliveryArrives(r)
    \/ served < MaxDeliveryOps /\ PPD_getPending(r)
    \/ ManualGrant(r)
    \/ ServerDeliver(r)
    \/ ProcessPending(r)

SpecDelivery == InitDelivery /\ [][NextDelivery]_vars

\* SpecRetry: manual deliveries, concurrent, against a game server that
\* answers anything.  Every HTTP call to the game server ends within the
\* timeout of the client and every delay timer fires, so a request that
\* can take a step takes it at last.
NextRetry ==
  \E r \in Slots :
    \/ served < MaxRetryOps /\ ManualDeliveryArrives(r)
    \/ ServerDeliver(r)

SpecRetry ==
  InitDelivery /\ [][NextRetry]_vars
    /\ \A r \in Slots : WF_vars(ServerDeliver(r))

\* SpecIdentity: users change the game identity of their profile, and the
\* operations that call the game server (fulfillment, admin grants, manual
\* and bulk delivery) follow, one request at a time.
Identifiers == {"steam:9", "evil:1", "steam", "bad"}

ProfileArrives ==
  \E identifier \in Identifiers : updateProfile(1, identifier)

DeliveryToArrives(r) ==
  \E userIdentifier \in Identifiers : SD_findUser(r, userIdentifier, "item")

NextIdentity ==
  \/ served < MaxIdentityOps /\ ProfileArrives
  \/ \E r \in Slots :
       \/ Checkout(r)
       \/ Quiet /\ served < MaxIdentityOps /\ ApprovedEvent(r)
       \/ Quiet /\ served < MaxIdentityOps /\ AdminGrantArrives(r)
       \/ Quiet /\ served < MaxIdentityOps /\ DeliveryToArrives(r)
       \/ Quiet /\ served < MaxIdentityOps /\ PPD_getPending(r)
       \/ EfiUpdate(r)
       \/ GenericUpdate(r)
       \/ Fulfill(r)
       \/ ManualGrant(r)
       \/ ServerDeliver(r)
       \/ ProcessPending(r)

SpecIdentity == InitSecured /\ [][NextIdentity]_vars

\* ============================================================ properties
WebhookKinds == {"efi", "generic"}

\* The checkout of t went through and only approved events were accepted.
OnlyApprovals(t) ==
  /\ logs["payment_created"] = 1
  /\ txs[t].exists
  /\ events[t].other = 0

RECURSIVE CoinsBought(_)
\* The coins the line items of a transaction are worth.
CoinsBought(items) ==
  IF items = <<>> THEN 0
  ELSE (IF Head(items).type = "coins" THEN coinAmount(Head(items)) ELSE 0)
       + CoinsBought(Tail(items))

CoinItems(t) ==
  {k \in DOMAIN txs[t].products : txs[t].products[k].type = "coins"}

\* C1: when two approved events about one pending transaction have both
\* been handled, concurrently or not, processApprovedPayment has been
\* invoked exactly once for it.
C1_OneFulfillmentUnderRace ==
  \A t \in TxIds :
    (Quiet /\ OnlyApprovals(t) /\ events[t].approved = 2)
      => fulfillCalls[t] = 1

\* C2: when the same approved event is delivered again after the first
\* delivery has completed, the transaction has exactly one grant per line
\* item, was fulfilled once, and the balance was credited once.
C2_RedeliveryIsIdempotent ==
  \A t \in TxIds :
    (Quiet /\ OnlyApprovals(t) /\ events[t].approved >= 1)
      => /\ fulfillCalls[t] = 1
         /\ Cardinality(GrantsOf(t)) = Len(txs[t].products)
         /\ effects[t].coins = Cardinality(CoinItems(t))
         /\ users[txs[t].userId].coins <= CoinsBought(txs[t].products)

\* C2 witness: a second approved event about a coin purchase has been
\* answered after the first one had completed.
C2_Witness ==
  \E t \in TxIds :
    /\ Quiet /\ OnlyApprovals(t) /\ events[t].approved = 2
    /\ CoinItems(t) # {}
    /\ last.kind \in WebhookKinds /\ last.resp = 200
    /\ users[txs[t].userId].coins > 0

\* The line items of t are one coins product worth 100 and one vip
\* product of 30 days.
CoinsAndVip(t) ==
  /\ txs[t].exists /\ Len(txs[t].products) = 2
  /\ \E k \in 1..2 :
       /\ txs[t].products[k].type = "coins"
       /\ coinAmount(txs[t].products[k]) = 100
       /\ txs[t].products[3 - k].type = "vip"
       /\ vipDuration(txs[t].products[3 - k]) = 30

\* The approved event about the coins-and-vip purchase t has been handled.
Purchased(t) ==
  /\ Quiet /\ CoinsAndVip(t) /\ OnlyApprovals(t)
  /\ logs["payment_processed"] >= 1

\* What fulfillment leaves in the ledger and in the account.
PurchaseApplied(t) ==
  /\ Cardinality(GrantsOf(t)) = 2
  /\ users[txs[t].userId].coins = effects[t].coinsFrom + 100
  /\ users[txs[t].userId].vipExpires = effects[t].vipAt + 30

C9_NoLostUpdate ==
  \A u \in UserIds :
    (Quiet /\ \A t \in TxIds : Cardinality(CoinItems(t)) <= 1)
      => users[u].coins = expected[u]

\* C10: a delivered grant never changes status, a failed grant never
\* returns to pending, and a failed grant becomes delivered only in a
\* step that makes a new delivery attempt for it.
C10_GrantStatusIsFinal ==
  [][\A g \in DOMAIN grants :
       /\ grants[g].status = "delivered" => grants'[g].status = "delivered"
       /\ grants[g].status = "failed" => grants'[g].status # "pending"
       /\ (grants[g].status = "failed" /\ grants'[g].status = "delivered")
            => attempts'[g].calls = attempts[g].calls + 1]_vars

\* C11: a call of deliverItemsWithRetry that returned delivered made k
\* attempts (1 <= k <= 3) of which only the last succeeded, and k - 1
\* delays; one that returned not delivered made exactly 3 attempts and 2
\* delays; while the call is in progress every attempt so far has failed
\* and has been followed by its delay.
C11_RetryProtocol ==
  \A g \in DOMAIN attempts :
    LET rt == attempts[g].retry
    IN /\ rt.calls <= retryAttempts
       /\ rt.result = "delivered"
            => rt.fails = rt.calls - 1 /\ rt.delays = rt.calls - 1
       /\ rt.result = "failed"
            => rt.calls = 3 /\ rt.fails = 3 /\ rt.delays = 2
       /\ rt.result = NoVal
            => rt.fails = rt.calls /\ rt.delays = rt.calls

\* C11 witness: one call has returned delivered on its third attempt and
\* another has returned not delivered.
C11_Witness ==
  \E g, h \in DOMAIN attempts :
    /\ attempts[g].retry.result = "delivered" /\ attempts[g].retry.calls = 3
    /\ attempts[h].retry.result = "failed"
    /\ Quiet

\* The grants of a set whose user has no linked game identity.
Unlinked(S) == {g \in S : users[grants[g].userId].fivemIdentifier = NoVal}

WellFormed(result) ==
  /\ ~result.threw
  /\ ~result.delivered => result.retryAfter > 0

\* C13: deliverItems returns a DeliveryResult for every outcome of the
\* boundary (success, refusal, recipient offline, empty body, connection
\* refused, timeout) and never throws; a result that is not delivered
\* carries a retryAfter hint.  The answer of a manual delivery carries
\* such a result.
C13_DeliverNeverThrows ==
  /\ \A outcome \in BoundaryOutcomes : WellFormed(deliverItems(outcome))
  /\ (last.kind = "deliver" /\ last.resp = 200) => WellFormed(last.delivery)

\* C13 witness: a manual delivery has answered with a result that is not
\* delivered and hints at the recipient being offline.
C13_Witness ==
  /\ last.kind = "deliver" /\ last.resp = 200
  /\ ~last.delivery.delivered
  /\ last.delivery.retryAfter = 300

\* C14: once fulfillment of a transaction has started, its status is
\* approved and stays so, whatever exception a storage call raises while
\* a line item is processed.
C14_StaysApproved ==
  \A t \in TxIds : fulfillCalls[t] >= 1 => txs[t].status = "approved"

\* Line item k of t has been processed: its grant exists, the account
\* effect of a coins or vip item is applied, and delivery was attempted
\* for a user with a linked identity.
Processed(t, k) ==
  /\ \E g \in GrantsOf(t) :
       /\ grants[g].item = k
       /\ users[txs[t].userId].fivemIdentifier # NoVal
            => attempts[g].calls >= 1
  /\ txs[t].products[k].type \in {"coins", "vip"}
       => k \in effects[t].applied

\* C15: when fulfillment of a transaction has ended and an exception was
\* raised while line item i was processed, every later line item has
\* been processed all the same.
C15_LaterItemsProcessed ==
  \A t \in TxIds :
    (Quiet /\ fulfillCalls[t] = 1 /\ effects[t].faultItem > 0)
      => \A k \in DOMAIN txs[t].products :
           k > effects[t].faultItem => Processed(t, k)

\* The sum of unit price times quantity over the first k stored line items.
RECURSIVE PriceTimesQuantity(_, _)
PriceTimesQuantity(items, k) ==
  IF k = 0 THEN 0
  ELSE items[k].price * items[k].quantity + PriceTimesQuantity(items, k - 1)

AmountIsSum(T, t) ==
  T[t].exists =>
    /\ T[t].amount = PriceTimesQuantity(T[t].products, Len(T[t].products))
    /\ \A k \in DOMAIN T[t].products :
         T[t].products[k].subtotal
           = T[t].products[k].price * T[t].products[k].quantity

\* C16: the amount of a transaction is the sum over its line items of the
\* unit price read at creation times the quantity, and no step changes the
\* amount or the stored line items afterwards, a price update included.
C16_AmountIsSnapshot ==
  [][\A t \in TxIds :
       /\ AmountIsSum(txs, t) /\ AmountIsSum(txs', t)
       /\ txs[t].exists =>
            /\ txs'[t].amount = txs[t].amount
            /\ txs'[t].products = txs[t].products
       /\ (~txs[t].exists /\ txs'[t].exists) =>
            \A k \in DOMAIN txs'[t].products :
              txs'[t].products[k].price
                = prices[txs'[t].products[k].productId]]_vars

\* A fulfilled two-unit purchase whose product has a new price since.
C16_Witness ==
  \E t \in TxIds :
    /\ txs[t].exists /\ txs[t].status = "approved" /\ Quiet
    /\ fulfillCalls[t] = 1
    /\ \E k \in DOMAIN txs[t].products :
         /\ txs[t].products[k].quantity = 2
         /\ prices[txs[t].products[k].productId] # txs[t].products[k].price
    /\ Len(txs[t].products) = MaxItems

\* C17: in every state, a grant that references a transaction references
\* an approved one: a pending, cancelled or failed transaction has no grant.
C17_GrantsOnlyForApproved ==
  \A g \in DOMAIN grants :
    grants[g].transactionId \in TxIds
      => txs[grants[g].transactionId].status = "approved"

\* A cancel request about t is answered in this step: at its arrival, or
\* after the provider call.
CancelAnswered(t) ==
  \/ \E r \in Reqs : /\ req[r].kind = "cancel" /\ req[r].tx = t
                      /\ req'[r].kind = "idle"
  \/ served' = served + 1 /\ req' = req /\ last'.kind = "cancel"

\* C18: a cancel request that is answered while the transaction is in a
\* status other than pending is rejected and leaves the status alone; in
\* particular a transaction approved meanwhile by a webhook or a poll is
\* not overwritten to cancelled.
C18_CancelOnlyFromPending ==
  [][\A t \in TxIds :
       (txs[t].exists /\ txs[t].status # "pending" /\ CancelAnswered(t))
         => (txs'[t].status = txs[t].status /\ last'.resp # 200)]_vars

\* The number of status columns, of transactions and of grants, that a
\* step changes.
StatusChanges ==
  Cardinality({t \in TxIds : txs[t].exists /\ txs'[t].status # txs[t].status})
  + Cardinality({g \in DOMAIN grants : grants'[g].status # grants[g].status})

RECURSIVE RowsOf(_, _)
RowsOf(L, tags) ==
  IF tags = {} THEN 0
  ELSE LET tag == CHOOSE x \in tags : TRUE
       IN L[tag] + RowsOf(L, tags \ {tag})

\* The log rows that record a status change.
StatusTags == {"webhook_received", "payment_failed", "payment_cancelled",
               "item_delivered"}

\* C19: a step that changes the status of transactions or grants appends
\* one audit-log row per change, and a step that changes no status appends
\* no row that records a status change.
C19_OneLogRowPerStatusChange ==
  [][IF StatusChanges > 0
     THEN RowsOf(logs', LogTags) - RowsOf(logs, LogTags) = StatusChanges
     ELSE RowsOf(logs', StatusTags) = RowsOf(logs, StatusTags)]_vars

\* C20: once fulfillment has applied a vip line item, the user holds the
\* purchased level and the expiry is the later of the time of fulfillment
\* and the expiry held before, plus the purchased duration.
C20_VipExtendsFromLaterOfNowAndExpiry ==
  \A t \in TxIds :
    effects[t].vip >= 1
      => /\ users[txs[t].userId].vipLevel = Catalog[2].data.level
         /\ users[txs[t].userId].vipExpires
              = Max(effects[t].vipAt, effects[t].vipFrom)
                  + Catalog[2].data.duration

\* Request r ends the stock handling of its line item in this step: the
\* lookup found nothing to decrement, or the decrement is written.
StockHandled(r) ==
  \/ req[r].pc = "pap_stock" /\ req'[r].pc # "pap_stock_write"
  \/ req[r].pc = "pap_stock_write"

\* C21: fulfilling a line item leaves an unlimited stock (-1) alone and
\* sets a finite stock to max(0, stock - quantity); no step touches the
\* stock of another product, makes a finite stock negative or changes an
\* unlimited one.
C21_StockFlooredAtZero ==
  [][/\ \A p \in ProductIds :
          IF stock[p] = -1 THEN stock'[p] = -1 ELSE stock'[p] >= 0
     /\ \A r \in Slots :
          StockHandled(r)
            => LET p == Item(r).productId
               IN /\ stock[p] # -1
                       => stock'[p] = Max(0, stock[p] - Item(r).quantity)
                  /\ \A o \in ProductIds \ {p} : stock'[o] = stock[o]]_vars

\* Two units of the vehicle were bought from a stock of MoreStock and the
\* purchase was fulfilled twice: the second decrement was floored at 0.
C21_Witness ==
  \E t \in TxIds :
    /\ Quiet /\ fulfillCalls[t] = 2
    /\ Len(txs[t].products) = 1
    /\ txs[t].products[1].productId = 3
    /\ txs[t].products[1].quantity = 2
    /\ stock[3] = 0

\* C22: a webhook request whose payload carries no status takes no step
\* that changes a transaction or a grant.
C22_MalformedChangesNothing ==
  [][\A r \in Reqs :
       (req[r].kind \in WebhookKinds /\ req[r].raw = NoVal)
         => (txs' = txs /\ grants' = grants)]_vars

C24_GrantDeliveredAtLast ==
  \A g \in 1..MaxItems :
    (g \in DOMAIN grants /\ grants[g].transactionId # NoVal)
      ~> (g \in DOMAIN grants /\ grants[g].status = "delivered")

\* The delivery during fulfillment failed and the bulk delivery, invoked
\* after the game server had started to accept, delivered the grant.
C24_Witness ==
  /\ Accepting /\ Quiet
  /\ last.kind = "bulk" /\ last.results.delivered >= 1
  /\ \E g \in DOMAIN grants :
       /\ grants[g].transactionId # NoVal
       /\ grants[g].status = "delivered"
       /\ attempts[g].calls >= 2 /\ attempts[g].ok = 1

\* C25: in every reachable state every user's coin balance is a
\* non-negative integer, after any sequence of fulfillments, admin grants
\* with any grantData.amount and updateCoins add/subtract operations.
C25_BalanceNeverNegative == \A u \in UserIds : users[u].coins \in Nat

\* C26: in every reachable state the status of every stored transaction
\* is one of pending, approved, cancelled, failed, whatever status string
\* a generic webhook payload or the provider status poll supplies.
C26_StatusInDomain ==
  \A t \in TxIds : txs[t].exists => txs[t].status \in TxStatus

\* C27: after the fulfillment of an approved transaction that contains
\* several coins line items, the balance of the user has grown by the sum
\* of the coin amounts of all of them.
C27_EveryCoinItemCredited ==
  \A t \in TxIds :
    (Quiet /\ fulfillCalls[t] = 1 /\ Cardinality(CoinItems(t)) >= 2
       /\ effects[t].coins = Cardinality(CoinItems(t)))
      => users[txs[t].userId].coins
           = effects[t].coinsFrom + CoinsBought(txs[t].products)

\* The ledger state fulfillment of t leaves: one grant per line item, the
\* account effect of every coins and vip line item applied once, and the
\* one unit in stock of a limited product that was bought gone.
LedgerFulfilled(t) ==
  LET items == txs[t].products
  IN /\ \A k \in DOMAIN items :
          Cardinality({g \in GrantsOf(t) : grants[g].item = k}) = 1
     /\ effects[t].applied
          = {k \in DOMAIN items : items[k].type \in {"coins", "vip"}}
     /\ effects[t].coins + effects[t].vip = Cardinality(effects[t].applied)
     /\ \A k \in DOMAIN items :
          stock[items[k].productId] # -1 => stock[items[k].productId] = 0

\* C28: a transaction approved by the status poll of getPaymentStatus,
\* by an approved webhook, or by both in any interleaving, ends in the
\* same ledger state: one grant per line item, each coins and vip effect
\* applied exactly once, stock decremented.
C28_PollFulfillsLikeWebhook ==
  \A t \in TxIds :
    (Quiet /\ txs[t].status = "approved" /\ fulfillCalls[t] >= 1
       /\ events[t].approved <= 1 /\ events[t].other = 0)
      => LedgerFulfilled(t)

\* Request r is at a delivery call of fulfillment or of the bulk
\* processing, and this step returns from it without a delivered result.
AttemptFails(r) ==
  /\ req[r].pc \in {"pap_deliver", "ppd_deliver"}
  /\ req'[r] # req[r]
  /\ attempts'[req[r].g].ok = attempts[req[r].g].ok
  /\ effects' = effects

\* C29: a delivery attempt of fulfillment or of processPendingDeliveries
\* that returns delivered = false changes no grant row; the bulk result
\* counts it as failed; and a grant that was pending is still among the
\* grants getPendingGrants returns.
C29_FailedAttemptLeavesPending ==
  [][\A r \in Slots :
       AttemptFails(r)
         => /\ grants' = grants
            /\ req[r].kind = "bulk"
                 => /\ req'[r].results.failed = req[r].results.failed + 1
                    /\ req'[r].results.delivered = req[r].results.delivered
            /\ grants[req[r].g].status = "pending"
                 => req[r].g \in getPendingGrants(grants')]_vars

\* C29 witness: a bulk invocation has fetched a grant of a purchase for
\* which two attempts were made before it, by fulfillment and by an
\* earlier bulk invocation, none of them delivering.
C29_Witness ==
  \E r \in Slots :
    /\ req[r].kind = "bulk" /\ req[r].tried = <<>>
    /\ \E g \in req[r].pending0 :
         /\ grants[g].transactionId # NoVal
         /\ grants[g].status = "pending"
         /\ attempts[g].calls = 2 /\ attempts[g].ok = 0

\* C30: the manual delivery creates one grant, pending; at the step at
\* which it answers, after deliverItemsWithRetry has returned, the answer
\* is a success, the grant it created is delivered exactly when one of
\* the attempts succeeded and failed exactly when all retryAttempts
\* attempts failed, it is not pending, and no further grant was created.
C30_ManualDeliveryEndsGrant ==
  [][\A r \in Slots :
       /\ (req[r].kind = "deliver" /\ req[r].pc = "sd_grant"
              /\ req'[r] # req[r])
            => /\ Len(grants') = Len(grants) + 1
               /\ req'[r].g = Len(grants')
               /\ grants'[req'[r].g].status = "pending"
       /\ (req[r].kind = "deliver" /\ req[r].pc = "sd_attempt"
              /\ req'[r].pc # "sd_attempt")
            => LET g == req[r].g
                   rt == attempts'[g].retry
               IN /\ last'.kind = "deliver" /\ last'.resp = 200
                  /\ grants'[g].status = "delivered" <=> rt.fails < rt.calls
                  /\ grants'[g].status = "failed"
                       <=> (rt.calls = retryAttempts /\ rt.fails = rt.calls)
                  /\ grants'[g].status # "pending"
                  /\ Len(grants') = Len(grants)]_vars

\* C30 witness: a manual delivery has just answered, and of the grants
\* that manual deliveries created one was delivered at the second attempt
\* and another is failed after three attempts.
C30_Witness ==
  /\ last.kind = "deliver" /\ last.resp = 200
  /\ \E g, h \in DOMAIN grants :
       /\ grants[g].status = "delivered"
       /\ attempts[g].retry.calls = 2 /\ attempts[g].retry.fails = 1
       /\ grants[h].status = "failed"
       /\ attempts[h].retry.calls = retryAttempts
       /\ attempts[h].retry.fails = retryAttempts

\* C31: when a webhook handler applies an event whose status (approved,
\* cancelled or failed) equals the status the transaction already has,
\* the step does nothing further: the status stays, neither fulfillment
\* nor the failure path runs, and no payment_failed row is appended.
C31_DuplicateEventDoesNothing ==
  [][\A r \in Slots :
       (/\ req[r].pc = "wh_update" /\ req'[r] # req[r]
        /\ req[r].ev \in Terminal
        /\ req[r].old = req[r].ev
        /\ txs[req[r].tx].status = req[r].ev)
         => /\ txs'[req[r].tx].status = txs[req[r].tx].status
            /\ fulfillCalls' = fulfillCalls
            /\ logs'["payment_failed"] = logs["payment_failed"]]_vars

\* The boundary answered with a body that reports the recipient as not
\* online.
ReportsOffline(response) ==
  ~response.threw /\ response.body /\ response.playerOnline = "false"

\* C32: for every behaviour of the boundary, a result of deliverItems that
\* is not delivered proposes retryAfter = 300 exactly when the response
\* reports the recipient as not online and 60 for every other failure,
\* thrown transport errors included; the answer of a manual delivery that
\* did not deliver carries one of the two hints, and the offline hint is
\* the longer one.
C32_RetryHint ==
  /\ \A outcome \in BoundaryOutcomes :
       LET result == deliverItems(outcome)
       IN ~result.delivered
            => /\ result.retryAfter = 300 <=> ReportsOffline(makeRequest(outcome))
               /\ result.retryAfter = 60 <=> ~ReportsOffline(makeRequest(outcome))
  /\ (last.kind = "deliver" /\ last.resp = 200 /\ ~last.delivery.delivered)
       => /\ last.delivery.retryAfter \in {60, 300}
          /\ last.delivery.retryAfter = 60
               => \E outcome \in BoundaryOutcomes :
                    /\ ~ReportsOffline(makeRequest(outcome))
                    /\ deliverItems(outcome) = last.delivery
  /\ deliverItems("offline").retryAfter > deliverItems("timeout").retryAfter

\* C32 witness: a manual delivery has answered after three failed
\* attempts with the hint of a transient failure.
C32_Witness ==
  /\ last.kind = "deliver" /\ last.resp = 200
  /\ ~last.delivery.delivered
  /\ last.delivery.retryAfter = 60
  /\ \E g \in DOMAIN attempts : attempts[g].retry.result = "failed"

\* C33: deliverItemsWithRetry always terminates.  Every call that has
\* started returns at last, whatever the game server answers; it makes at
\* most retryAttempts attempts and, when it has returned, at least one;
\* a call that returned delivered succeeded at its last attempt only; and
\* a call that has returned makes no further attempt.
C33_RetryTerminates ==
  /\ \A g \in 1..MaxRetryOps :
       (g \in DOMAIN attempts)
         ~> (g \in DOMAIN attempts /\ attempts[g].retry.result # NoVal)
  /\ [](\A g \in DOMAIN attempts :
         LET rt == attempts[g].retry
         IN /\ rt.calls <= retryAttempts
            /\ rt.result # NoVal => rt.calls >= 1
            /\ rt.result = "delivered" => rt.fails = rt.calls - 1)
  /\ [][\A g \in DOMAIN attempts :
         attempts[g].retry.result # NoVal
           => attempts'[g].retry = attempts[g].retry]_vars

\* C33 witness: two calls have returned, one delivered at its first
\* attempt and one after the third attempt failed.
C33_Witness ==
  \E g, h \in DOMAIN attempts :
    /\ attempts[g].retry.result = "delivered" /\ attempts[g].retry.calls = 1
    /\ attempts[h].retry.result = "failed"
    /\ attempts[h].retry.calls = retryAttempts
    /\ \A r \in Slots : req[r].kind # "deliver"

\* C34: no grant is delivered to the game server more than once: in every
\* interleaving of fulfillment, admin grants and invocations of
\* processPendingDeliveries, at most one delivery call for a grant has
\* returned delivered.
C34_DeliveredAtMostOnce ==
  \A g \in DOMAIN attempts : attempts[g].ok <= 1

\* This step applies a delivery confirmation that reports grant g as
\* delivered.
ConfirmsDelivered(g) ==
  \E r \in Slots :
    /\ req[r].kind = "confirm" /\ req[r].pc = "dc_update"
    /\ req'[r] # req[r]
    /\ req[r].g = g /\ req[r].ev = "delivered"

\* C35: a grant is created pending, and a step that stores 'delivered'
\* for a grant is the return of a delivery call for that grant with a
\* delivered result, or the handling of a delivery confirmation for it;
\* so every delivered grant that no confirmation touched has had a
\* delivery call succeed.
C35_DeliveredOnlyAfterSuccess ==
  [][\A g \in DOMAIN grants' :
       IF g \notin DOMAIN grants
       THEN grants'[g].status = "pending"
       ELSE (grants'[g].status = "delivered" /\ grants[g].status # "delivered")
              => \/ attempts'[g].ok = attempts[g].ok + 1
                 \/ ConfirmsDelivered(g)]_vars

\* C35 witness: a grant of a purchase and a grant of an administrator are
\* both stored as delivered, each after one successful delivery call.
C35_Witness ==
  \E g, h \in DOMAIN grants :
    /\ grants[g].transactionId # NoVal /\ grants[g].status = "delivered"
    /\ attempts[g].ok = 1
    /\ grants[h].grantedBy = AdminId /\ grants[h].status = "delivered"
    /\ attempts[h].ok = 1
    /\ Quiet

\* C36: when an admin grant operation answers, the status it reports for
\* the grant is the status stored for it: it reports delivered exactly
\* when the stored grant is delivered, so a grant reported as delivered is
\* not among the grants getPendingGrants returns.
C36_ReportedStatusIsStored ==
  [][\A r \in Slots :
       (req[r].kind = "manual" /\ req[r].pc = "mg_effect"
          /\ req'[r] # req[r])
         => /\ last'.delivery.delivered
                 <=> grants'[req[r].g].status = "delivered"
            /\ last'.delivery.delivered
                 => req[r].g \notin getPendingGrants(grants')]_vars

\* C3: whatever sequence of webhook events about a transaction arrives,
\* the transaction is fulfilled at most once.
C3_FulfilledAtMostOnce ==
  \A t \in TxIds : fulfillCalls[t] <= 1

\* C4: once a transaction is approved, cancelled or failed, no step
\* changes its status.
C4_TerminalStatusIsFinal ==
  [][\A t \in TxIds :
       (txs[t].exists /\ txs[t].status \in Terminal)
         => txs'[t].status = txs[t].status]_vars

\* A webhook request that carried a signature which did not verify.
Forged(rq) ==
  rq.kind \in WebhookKinds /\ rq.sigGiven /\ ~rq.verified

\* C5: a webhook request whose signature does not match the HMAC of its
\* payload is answered 401 before it does anything: it never gets past
\* the signature check and it writes nothing.
C5_ForgedIsRejected ==
  /\ \A r \in Reqs : ~Forged(req[r])
  /\ Forged(last) => (last.resp = 401 /\ ~last.wrote)

\* C6: a webhook request writes a transaction or a grant only after its
\* signature was verified against the configured secret.
C6_WritesOnlyWhenVerified ==
  /\ \A r \in Reqs :
       (req[r].kind \in WebhookKinds /\ req[r].wrote) => req[r].verified
  /\ (last.kind \in WebhookKinds /\ last.wrote) => last.verified

\* Some request is fulfilling t.
Fulfilling(t) ==
  \E r \in Reqs : req[r].tx = t /\ req[r].pc \in
    {"pap_user", "pap_grant", "pap_deliver", "pap_effect", "pap_stock",
     "pap_stock_write", "pap_finish", "pap_catch"}

\* C7: once fulfillment of a transaction has completed, the transaction
\* has exactly as many grants as line items.
C7_OneGrantPerLineItem ==
  \A t \in TxIds :
    (fulfillCalls[t] >= 1 /\ ~Fulfilling(t))
      => Cardinality(GrantsOf(t)) = Len(txs[t].products)

====
